---------------------------- MODULE Spec2Model ----------------------------
(***************************************************************************)
(* ChessMate robot arm: the coordinate model (coordinate_converter.py),    *)
(* the path planner (path_planner.py) and the command dispatcher           *)
(* (path_finder/main.py), driven by the robot process (call_robot.py).     *)
(***************************************************************************)
EXTENDS Integers, Sequences, FiniteSets, TLC

VARIABLES
    arduino,                \* main.py global `arduino`: "none" (None) or "open"
    white_captured_pieces,  \* converter.white_captured_pieces (x slots, y = 0)
    black_captured_pieces,  \* converter.black_captured_pieces (x slots, y = 18)
    pc,                     \* where the robot process is
    args,                   \* arguments of the running execute_chess_move call
    commands,               \* local `commands` of execute_chess_move
    i,                      \* index of the command send_command is working on
    result,                 \* return value of the last execute_chess_move
    calls,                  \* number of execute_chess_move calls made so far
    written,                \* lines written to the serial port during this call
    nread,                  \* lines read from the port since the last write
    acked,                  \* a line starting with Done was among them
    response,               \* send_command's `response`: the last line read
    raised,                 \* send_command caught an exception during this call
    issued,                 \* number of actions of `commands` issued so far
    inbuf,                  \* lines sent by the controller and not yet read
    owed,                   \* the controller holds a command it has not answered
    noise,                  \* other lines the controller sent for that command
    pos,                    \* actuator position implied by the actions issued
    gripper,                \* "down" or "up" (carrying) per the actions issued
    pickup,                 \* position at which the last raise was issued
    crossed,                \* square centers passed over while carrying
    position,               \* last value get_next_discard_position returned
    test_pc,                \* where the converter's round-trip test is
    test_square,            \* the test's `square`
    test_use_channel,       \* the use_channel argument the test passes
    grid_coords,            \* the test's `grid_coords`
    back_to_chess,          \* the test's `back_to_chess`
    back_to_grid,           \* chess_to_grid of back_to_chess, center point
    corners,                \* what get_square_corners returned to the test
    edges,                  \* what get_edge_points returned to the test
    MOVE_DETAILS,           \* backend/main.py MOVE_DETAILS (game-state service)
    moves,                  \* call_robot.py `moves`: the list last polled
    processed_count,        \* call_robot.py `processed_count`
    loop,                   \* where call_robot.py's polling loop is
    committed,              \* number of records the service has appended
    resets,                 \* number of resets of the service
    dispatched              \* serials of the records execute_chess_move got

\* the robot process, the controller and the actuator
robotVars == <<arduino, pc, args, commands, i, result, calls, written, nread,
               acked, response, raised, issued, inbuf, owed, noise, pos,
               gripper, pickup, crossed>>

\* the discard lanes of the converter
laneVars == <<white_captured_pieces, black_captured_pieces>>

\* the converter's round-trip test
testVars == <<test_pc, test_square, test_use_channel, grid_coords,
              back_to_chess, back_to_grid, corners, edges>>

\* the game-state service and the polling loop
pollVars == <<MOVE_DETAILS, moves, processed_count, loop, committed, resets,
              dispatched>>

vars == <<arduino, white_captured_pieces, black_captured_pieces, pc, args,
          commands, i, result, calls, written, nread, acked, response, raised,
          issued, inbuf, owed, noise, pos, gripper, pickup, crossed, position,
          testVars, pollVars>>

-----------------------------------------------------------------------------
(* Bounds of the model *)

\* execute_chess_move calls made by one run of the robot process
MaxCalls == 1

\* lines other than Done/Error the controller sends for one command
MaxNoise == 1

\* allocations recorded in one discard lane before it is reset
MaxLane == 9

\* move records the game-state service holds at a time
MaxRecords == 2

\* resets of the game-state service
MaxResets == 1

-----------------------------------------------------------------------------
(* coordinate_converter.py *)

files == <<"a", "b", "c", "d", "e", "f", "g", "h">>

ranks == <<"1", "2", "3", "4", "5", "6", "7", "8">>

square_size == 2

white_discard_y == 0

black_discard_y == 18

\* str.index: position (0-based) of character c in the string s
IndexOf(s, c) == (CHOOSE k \in 1..Len(s) : s[k] = c) - 1

\* c in s, for a one-character c
Contains(s, c) == \E k \in 1..Len(s) : s[k] = c

\* str.lower on a file character
Lower(c) ==
    CASE c = "A" -> "a" [] c = "B" -> "b" [] c = "C" -> "c" [] c = "D" -> "d"
      [] c = "E" -> "e" [] c = "F" -> "f" [] c = "G" -> "g" [] c = "H" -> "h"
      [] OTHER -> c

Abs(n) == IF n < 0 THEN -n ELSE n

Point(x, y) == [x |-> x, y |-> y]

\* the checks of chess_to_grid that raise ValueError
chess_to_grid_raises(square) ==
    \/ Len(square) # 2
    \/ ~Contains(files, Lower(square[1]))
    \/ ~Contains(ranks, square[2])

\* mutant of chess_to_grid: the center is taken for the square's corner
chess_to_grid_center_is_corner(square, use_channel) ==
    LET file_index == IndexOf(files, Lower(square[1]))
        rank_index == IndexOf(ranks, square[2])
    IN  IF use_channel
        THEN Point(file_index * square_size, (rank_index * square_size) + 1)
        ELSE Point(file_index * square_size, (rank_index * square_size) + 2)

chess_to_grid(square, use_channel) ==
    LET file_index == IndexOf(files, Lower(square[1]))
        rank_index == IndexOf(ranks, square[2])
    IN  IF use_channel
        THEN Point(file_index * square_size, (rank_index * square_size) + 1)
        ELSE Point((file_index * square_size) + 1, (rank_index * square_size) + 2)

\* str(n) of a one-digit number
Str(n) == <<"0", "1", "2", "3", "4", "5", "6", "7", "8", "9">>[n + 1]

\* file_index and rank_index of grid_to_chess; // rounds towards minus infinity
grid_file_index(x) == (x - 1) \div square_size

\* mutant of grid_rank_index: the discard row below rank 1 is forgotten
grid_rank_index_no_offset(y) == y \div square_size

grid_rank_index(y) == (y - 2) \div square_size

\* grid_to_chess raises ValueError
grid_to_chess_raises(x, y) ==
    \/ ~(0 <= x /\ x <= 16)
    \/ ~(0 <= y /\ y <= 18)
    \/ ~(0 <= grid_file_index(x) /\ grid_file_index(x) <= 7)
    \/ ~(0 <= grid_rank_index(y) /\ grid_rank_index(y) <= 7)

\* the square grid_to_chess returns when it does not raise
grid_to_chess(x, y) ==
    <<files[grid_file_index(x) + 1], Str(grid_rank_index(y) + 1)>>

\* get_square_corners: chess_to_grid(square) is called with its default
\* use_channel=True
get_square_corners(square) ==
    LET center == chess_to_grid(square, TRUE)
    IN  [bottom_left |-> Point(center.x - 1, center.y - 1),
         bottom_right |-> Point(center.x + 1, center.y - 1),
         top_left |-> Point(center.x - 1, center.y + 1),
         top_right |-> Point(center.x + 1, center.y + 1)]

\* get_edge_points, with the same default
get_edge_points(square) ==
    LET center == chess_to_grid(square, TRUE)
    IN  [left |-> Point(center.x - 1, center.y),
         right |-> Point(center.x + 1, center.y),
         bottom |-> Point(center.x, center.y - 1),
         top |-> Point(center.x, center.y + 1)]

get_home_position == Point(0, 0)

is_valid_grid_position(x, y) == 0 <= x /\ x <= 16 /\ 0 <= y /\ y <= 18

\* max(captured_list)
MaxOf(list) == CHOOSE m \in {list[k] : k \in 1..Len(list)} :
                   \A k \in 1..Len(list) : list[k] <= m

\* mutant of next_discard_x: the next piece goes right beside the last one
next_discard_x_adjacent(captured_list) ==
    IF captured_list = <<>>
    THEN 1
    ELSE IF MaxOf(captured_list) + 1 > 15 THEN 1 ELSE MaxOf(captured_list) + 1

\* the x slot get_next_discard_position picks for a lane holding captured_list
next_discard_x(captured_list) ==
    IF captured_list = <<>>
    THEN 1
    ELSE IF MaxOf(captured_list) + 2 > 15 THEN 1 ELSE MaxOf(captured_list) + 2

\* mutant of get_next_discard_position: the piece goes to the lane of the
\* capturing side
get_next_discard_position_own_lane(is_white_capture, white_list, black_list) ==
    IF is_white_capture
    THEN Point(next_discard_x(black_list), white_discard_y)
    ELSE Point(next_discard_x(white_list), black_discard_y)

\* the point get_next_discard_position returns
get_next_discard_position(is_white_capture, white_list, black_list) ==
    IF is_white_capture
    THEN Point(next_discard_x(black_list), black_discard_y)
    ELSE Point(next_discard_x(white_list), white_discard_y)

-----------------------------------------------------------------------------
(* Actions of a choreography: one line of text each *)

Displacement(dx, dy) == [op |-> "X", dx |-> dx, dy |-> dy, piece |-> ""]

Word(w) == [op |-> w, dx |-> 0, dy |-> 0, piece |-> ""]

PromoteMarker(p) == [op |-> "PROMOTE", dx |-> 0, dy |-> 0, piece |-> p]

\* the list holding one displacement unless cond fails (an `if d != 0: append`)
LegIf(cond, dx, dy) == IF cond THEN <<Displacement(dx, dy)>> ELSE <<>>

-----------------------------------------------------------------------------
(* path_planner.py *)

home_position == get_home_position

_plan_discard_movement(from_pos, discard_pos) ==
    LET channel_y == IF from_pos.y % 2 = 0 THEN from_pos.y - 1 ELSE from_pos.y
        channel_dy == channel_y - from_pos.y
        dx == discard_pos.x - from_pos.x
        target_channel_y == 1
        final_dy == target_channel_y - channel_y
    IN  LegIf(channel_dy # 0, 0, channel_dy)
        \o LegIf(dx # 0, dx, 0)
        \o LegIf(final_dy # 0, 0, final_dy)

\* mutant of _plan_horizontal_edge_movement: the horizontal leg is run
\* first, on the row the piece was picked up in
_plan_horizontal_edge_movement_major_first(from_pos, to_pos, dx, dy) ==
    LET target_channel_x == IF to_pos.x % 2 = 1 THEN to_pos.x - 1 ELSE to_pos.x
        horizontal_dx == target_channel_x - from_pos.x
        target_channel_y == IF to_pos.y % 2 = 0 THEN to_pos.y - 1 ELSE to_pos.y
        vertical_dy == target_channel_y - from_pos.y
    IN  LegIf(horizontal_dx # 0, horizontal_dx, 0)
        \o LegIf(vertical_dy # 0, 0, vertical_dy)

_plan_horizontal_edge_movement(from_pos, to_pos, dx, dy) ==
    LET channel_y0 == IF from_pos.y % 2 = 0 /\ dy >= 0 THEN from_pos.y + 1
                      ELSE IF from_pos.y % 2 = 0 THEN from_pos.y - 1
                      ELSE from_pos.y
        channel_y == IF channel_y0 % 2 = 0
                     THEN channel_y0 + (IF dy >= 0 THEN 1 ELSE -1)
                     ELSE channel_y0
        channel_dy == channel_y - from_pos.y
        target_channel_x == IF to_pos.x % 2 = 1 THEN to_pos.x - 1 ELSE to_pos.x
        horizontal_dx == target_channel_x - from_pos.x
        target_channel_y == IF to_pos.y % 2 = 0 THEN to_pos.y - 1 ELSE to_pos.y
        vertical_dy == target_channel_y - channel_y
    IN  LegIf(channel_dy # 0, 0, channel_dy)
        \o LegIf(horizontal_dx # 0, horizontal_dx, 0)
        \o LegIf(vertical_dy # 0, 0, vertical_dy)

_plan_vertical_edge_movement(from_pos, to_pos, dx, dy) ==
    LET channel_x0 == IF from_pos.x % 2 = 1 /\ dx >= 0 THEN from_pos.x + 1
                      ELSE IF from_pos.x % 2 = 1 THEN from_pos.x - 1
                      ELSE from_pos.x
        channel_x == IF channel_x0 % 2 = 1
                     THEN channel_x0 + (IF dx >= 0 THEN 1 ELSE -1)
                     ELSE channel_x0
        channel_dx == channel_x - from_pos.x
        target_channel_y == IF to_pos.y % 2 = 0 THEN to_pos.y - 1 ELSE to_pos.y
        vertical_dy == target_channel_y - from_pos.y
        target_channel_x == IF to_pos.x % 2 = 1 THEN to_pos.x - 1 ELSE to_pos.x
        horizontal_dx == target_channel_x - channel_x
    IN  LegIf(channel_dx # 0, channel_dx, 0)
        \o LegIf(vertical_dy # 0, 0, vertical_dy)
        \o LegIf(horizontal_dx # 0, horizontal_dx, 0)

\* mutant of _plan_edge_movement: the carrying flag is ignored and every
\* trip is routed along the channels
_plan_edge_movement_always_routed(from_pos, to_pos, carrying_piece) ==
    LET dx == to_pos.x - from_pos.x
        dy == to_pos.y - from_pos.y
    IN  IF Abs(dx) >= Abs(dy)
        THEN _plan_horizontal_edge_movement(from_pos, to_pos, dx, dy)
        ELSE _plan_vertical_edge_movement(from_pos, to_pos, dx, dy)

_plan_edge_movement(from_pos, to_pos, carrying_piece) ==
    LET dx == to_pos.x - from_pos.x
        dy == to_pos.y - from_pos.y
    IN  IF ~carrying_piece
        THEN LegIf(dx # 0 \/ dy # 0, dx, dy)
        ELSE IF Abs(dx) >= Abs(dy)
             THEN _plan_horizontal_edge_movement(from_pos, to_pos, dx, dy)
             ELSE _plan_vertical_edge_movement(from_pos, to_pos, dx, dy)

CastlingPairs ==
    { <<<<"e", "1">>, <<"g", "1">>>>, <<<<"e", "1">>, <<"c", "1">>>>,
      <<<<"e", "8">>, <<"g", "8">>>>, <<<<"e", "8">>, <<"c", "8">>>> }

_is_castling_move(from_square, to_square) ==
    <<from_square, to_square>> \in CastlingPairs

\* rook_from / rook_to chosen by _plan_castling_path
castling_rook_from(king_to, is_white_move) ==
    IF king_to \in {<<"g", "1">>, <<"g", "8">>}
    THEN (IF is_white_move THEN <<"h", "1">> ELSE <<"h", "8">>)
    ELSE (IF is_white_move THEN <<"a", "1">> ELSE <<"a", "8">>)

castling_rook_to(king_to, is_white_move) ==
    IF king_to \in {<<"g", "1">>, <<"g", "8">>}
    THEN (IF is_white_move THEN <<"f", "1">> ELSE <<"f", "8">>)
    ELSE (IF is_white_move THEN <<"d", "1">> ELSE <<"d", "8">>)

\* mutant of final_approach: the piece is lowered where the channel route ends
final_approach_missing == <<>>

\* the corrective displacement appended before the final lower
final_approach == <<Displacement(1, 1)>>

_plan_castling_path(king_from, king_to, is_white_move) ==
    LET king_from_coords == chess_to_grid(king_from, FALSE)
        king_to_coords == chess_to_grid(king_to, FALSE)
        rook_from_coords ==
            chess_to_grid(castling_rook_from(king_to, is_white_move), FALSE)
        rook_to_coords ==
            chess_to_grid(castling_rook_to(king_to, is_white_move), FALSE)
    IN  <<Word("lower"), Word("home")>>
        \o _plan_edge_movement(home_position, king_from_coords, FALSE)
        \o <<Word("raise")>>
        \o _plan_edge_movement(king_from_coords, king_to_coords, TRUE)
        \o final_approach
        \o <<Word("lower"), Word("home")>>
        \o _plan_edge_movement(home_position, rook_from_coords, FALSE)
        \o <<Word("raise")>>
        \o _plan_edge_movement(rook_from_coords, rook_to_coords, TRUE)
        \o final_approach
        \o <<Word("lower")>>

\* the hardcoded discard point of the capture branch of plan_path
capture_discard_pos == Point(1, 0)

\* the capture branch of plan_path: relocation of the captured piece
\* mutant of plan_capture_relocation: the captured piece is not set down
\* before the actuator goes home
plan_capture_relocation_keeps_hold(to_coords) ==
    _plan_edge_movement(home_position, to_coords, FALSE)
    \o <<Word("raise")>>
    \o _plan_discard_movement(to_coords, capture_discard_pos)
    \o <<Displacement(0, -1), Word("home")>>

plan_capture_relocation(to_coords) ==
    _plan_edge_movement(home_position, to_coords, FALSE)
    \o <<Word("raise")>>
    \o _plan_discard_movement(to_coords, capture_discard_pos)
    \o <<Displacement(0, -1), Word("lower"), Word("home")>>

plan_path(from_square, to_square, is_capture, is_white_move) ==
    IF _is_castling_move(from_square, to_square)
    THEN _plan_castling_path(from_square, to_square, is_white_move)
    ELSE LET from_coords == chess_to_grid(from_square, FALSE)
             to_coords == chess_to_grid(to_square, FALSE)
         IN  <<Word("lower"), Word("home")>>
             \o (IF is_capture THEN plan_capture_relocation(to_coords) ELSE <<>>)
             \o _plan_edge_movement(home_position, from_coords, FALSE)
             \o <<Word("raise")>>
             \o _plan_edge_movement(from_coords, to_coords, TRUE)
             \o final_approach
             \o <<Word("lower")>>

\* plan_path raises when a square it converts is invalid
plan_path_raises(from_square, to_square) ==
    /\ ~_is_castling_move(from_square, to_square)
    /\ chess_to_grid_raises(from_square) \/ chess_to_grid_raises(to_square)

-----------------------------------------------------------------------------
(* path_finder/main.py *)

\* the actions _plan_promotion_sequence returns, given the slot it allocated
_plan_promotion_sequence(promotion_square, promotion_piece, temp_discard) ==
    LET promotion_coords == chess_to_grid(promotion_square, FALSE)
    IN  _plan_edge_movement(home_position, promotion_coords, FALSE)
        \o <<Word("raise")>>
        \o _plan_edge_movement(promotion_coords, temp_discard, TRUE)
        \o <<Word("lower"), Word("home"), PromoteMarker(promotion_piece)>>
        \o _plan_edge_movement(home_position, promotion_coords, FALSE)
        \o <<Word("raise")>>
        \o _plan_edge_movement(home_position, promotion_coords, TRUE)
        \o <<Word("lower")>>

\* promotion_piece = None
NoPiece == "None"

\* the list execute_chess_move builds before it starts sending
planned_commands(a, white_list, black_list) ==
    LET path == plan_path(a.from_square, a.to_square, a.is_capture, TRUE)
    IN  IF a.promotion_piece # NoPiece
        THEN path \o _plan_promotion_sequence(a.to_square, a.promotion_piece,
                         get_next_discard_position(TRUE, white_list, black_list))
        ELSE path

-----------------------------------------------------------------------------
(* The actuator as the issued actions drive it.  `X: dx Y: dy` is a        *)
(* displacement relative to the current position, `home` returns to the    *)
(* home position, `raise` picks up and `lower` sets down.                   *)

RECURSIVE GCD(_, _)
GCD(a, b) == IF b = 0 THEN a ELSE GCD(b, a % b)

\* grid points on the straight leg from p by (dx, dy), both ends included
Segment(p, dx, dy) ==
    LET g == GCD(Abs(dx), Abs(dy))
    IN  IF g = 0 THEN {p}
        ELSE {Point(p.x + k * (dx \div g), p.y + k * (dy \div g)) : k \in 0..g}

\* a square-center grid point: x odd, y even, inside the 8x8 board
IsCenter(p) ==
    /\ 1 <= p.x /\ p.x <= 15 /\ p.x % 2 = 1
    /\ 2 <= p.y /\ p.y <= 16 /\ p.y % 2 = 0

PosAfter(p, cmd) ==
    IF cmd.op = "X" THEN Point(p.x + cmd.dx, p.y + cmd.dy)
    ELSE IF cmd.op = "home" THEN get_home_position
    ELSE p

GripperAfter(g, cmd) ==
    IF cmd.op = "raise" THEN "up"
    ELSE IF cmd.op = "lower" THEN "down"
    ELSE g

\* centers a carried piece leaves behind on this leg, its pickup excepted
CrossedBy(p, cmd) ==
    { q \in Segment(p, cmd.dx, cmd.dy) \ {PosAfter(p, cmd)} :
          IsCenter(q) /\ q # pickup }

\* the effect of issuing cmd on the actuator
Issue(cmd) ==
    /\ issued' = issued + 1
    /\ pos' = PosAfter(pos, cmd)
    /\ gripper' = GripperAfter(gripper, cmd)
    /\ pickup' = IF cmd.op = "raise" THEN pos ELSE pickup
    /\ crossed' = IF cmd.op = "raise" THEN {}
                  ELSE IF cmd.op = "X" /\ gripper = "up"
                       THEN crossed \cup CrossedBy(pos, cmd)
                       ELSE crossed

-----------------------------------------------------------------------------
(* Inputs *)

Squares == { <<files[f], ranks[r]>> : f \in 1..8, r \in 1..8 }

PromotionPieces == {"Q"}

MoveArgs(froms, tos, captures, promotions, castlings) ==
    [from_square : froms, to_square : tos, is_capture : captures,
     promotion_piece : promotions, is_castling : castlings]

\* every call execute_chess_move can get with valid squares
AllMoves == MoveArgs(Squares, Squares, BOOLEAN,
                     PromotionPieces \cup {NoPiece}, BOOLEAN)

Sq(f, r) == <<f, r>>

Move(f, t, cap, promo, castle) ==
    [from_square |-> f, to_square |-> t, is_capture |-> cap,
     promotion_piece |-> promo, is_castling |-> castle]

\* calls whose endpoints are squares, upper-case squares or no squares
EndpointSquares ==
    { Sq("e", "7"), Sq("e", "8"), <<"E", "4">>, <<"e">>, <<"i", "1">>,
      <<"a", "9">>, <<"e", "2", "x">> }

EndpointMoves == MoveArgs(EndpointSquares, EndpointSquares, BOOLEAN,
                          PromotionPieces \cup {NoPiece}, {FALSE})

\* the calls the dispatcher is exercised with against a live controller
SampleMoves ==
    { Move(Sq("e", "2"), Sq("e", "4"), FALSE, NoPiece, FALSE),
      Move(Sq("e", "4"), Sq("d", "5"), TRUE, NoPiece, FALSE),
      Move(Sq("e", "1"), Sq("g", "1"), FALSE, NoPiece, TRUE),
      Move(Sq("e", "8"), Sq("c", "8"), TRUE, NoPiece, FALSE),
      Move(Sq("e", "7"), Sq("e", "8"), FALSE, "Q", FALSE) }

-----------------------------------------------------------------------------
(* The robot process *)

Lines == {"Done", "Error", "Other"}

\* connect_arduino: the port opens, or SerialException leaves `arduino` None
ConnectArduino ==
    /\ pc = "start"
    /\ arduino' \in {"open", "none"}
    /\ pc' = "idle"
    /\ UNCHANGED <<white_captured_pieces, black_captured_pieces, args, commands,
                   i, result, calls, written, nread, acked, response, raised,
                   issued, inbuf, owed, noise, pos, gripper, pickup, crossed>>
    /\ UNCHANGED <<position, testVars, pollVars>>

\* call_robot.py calls execute_chess_move with the fields of a move record
Call(m) ==
    /\ pc = "idle"
    /\ calls < MaxCalls
    /\ args' = m
    /\ calls' = calls + 1
    /\ commands' = <<>>
    /\ i' = 0
    /\ issued' = 0
    /\ written' = <<>>
    /\ nread' = 0
    /\ acked' = FALSE
    /\ response' = ""
    /\ raised' = FALSE
    /\ pc' = "called"
    /\ UNCHANGED <<arduino, white_captured_pieces, black_captured_pieces,
                   result, inbuf, owed, noise, pos, gripper, pickup, crossed>>
    /\ UNCHANGED <<position, testVars, pollVars>>

\* mutant of ExecuteChessMove: the except branch reports success
ExecuteChessMove_SwallowsError ==
    /\ pc = "called"
    /\ IF plan_path_raises(args.from_square, args.to_square)
       THEN /\ result' = TRUE
            /\ pc' = "returned"
            /\ UNCHANGED <<commands, i, black_captured_pieces>>
       ELSE /\ commands' = planned_commands(args, white_captured_pieces,
                                            black_captured_pieces)
            /\ black_captured_pieces' =
                   IF args.promotion_piece # NoPiece
                   THEN Append(black_captured_pieces,
                               next_discard_x(black_captured_pieces))
                   ELSE black_captured_pieces
            /\ i' = 1
            /\ pc' = "send"
            /\ UNCHANGED result
    /\ UNCHANGED <<arduino, white_captured_pieces, args, calls, written, nread,
                   acked, response, raised, issued, inbuf, owed, noise, pos,
                   gripper, pickup, crossed>>
    /\ UNCHANGED <<position, testVars, pollVars>>

\* execute_chess_move up to its send loop: planning, or the except branch.
\* The is_castling it computes first is never read again: plan_path decides
\* on the squares alone and is always called for a white mover.
ExecuteChessMove ==
    /\ pc = "called"
    /\ IF plan_path_raises(args.from_square, args.to_square)
       THEN /\ result' = FALSE
            /\ pc' = "returned"
            /\ UNCHANGED <<commands, i, black_captured_pieces>>
       ELSE /\ commands' = planned_commands(args, white_captured_pieces,
                                            black_captured_pieces)
            /\ black_captured_pieces' =
                   IF args.promotion_piece # NoPiece
                   THEN Append(black_captured_pieces,
                               next_discard_x(black_captured_pieces))
                   ELSE black_captured_pieces
            /\ i' = 1
            /\ pc' = "send"
            /\ UNCHANGED result
    /\ UNCHANGED <<arduino, white_captured_pieces, args, calls, written, nread,
                   acked, response, raised, issued, inbuf, owed, noise, pos,
                   gripper, pickup, crossed>>
    /\ UNCHANGED <<position, testVars, pollVars>>

\* mutant of Proceed: success is reported one action short of the list's end
Proceed_StopsShort ==
    IF i >= Len(commands) - 1
    THEN /\ result' = TRUE
         /\ pc' = "returned"
         /\ UNCHANGED i
    ELSE /\ i' = i + 1
         /\ pc' = "send"
         /\ UNCHANGED result

\* what follows a send_command that returned True
Proceed ==
    IF i = Len(commands)
    THEN /\ result' = TRUE
         /\ pc' = "returned"
         /\ UNCHANGED i
    ELSE /\ i' = i + 1
         /\ pc' = "send"
         /\ UNCHANGED result

\* mutant of Abort: the failure is logged and the loop carries on
Abort_CarriesOn == Proceed

\* what follows a send_command that returned False
Abort ==
    /\ result' = FALSE
    /\ pc' = "returned"
    /\ UNCHANGED i

\* mutant of SendSimulated: the missing-connection check is forgotten and
\* the line goes to the port
SendSimulated_WritesAnyway ==
    /\ pc = "send"
    /\ arduino = "none"
    /\ written' = Append(written, commands[i])
    /\ Issue(commands[i])
    /\ Proceed
    /\ UNCHANGED <<arduino, white_captured_pieces, black_captured_pieces, args,
                   commands, calls, nread, acked, response, raised, inbuf,
                   owed, noise>>
    /\ UNCHANGED <<position, testVars, pollVars>>

\* send_command without a connection: log and return True
SendSimulated ==
    /\ pc = "send"
    /\ arduino = "none"
    /\ Issue(commands[i])
    /\ Proceed
    /\ UNCHANGED <<arduino, white_captured_pieces, black_captured_pieces, args,
                   commands, calls, written, nread, acked, response, raised,
                   inbuf, owed, noise>>
    /\ UNCHANGED <<position, testVars, pollVars>>

\* send_command: the line is written to the port
Write ==
    /\ pc = "send"
    /\ arduino = "open"
    /\ written' = Append(written, commands[i])
    /\ nread' = 0
    /\ acked' = FALSE
    /\ response' = ""
    /\ owed' = TRUE
    /\ noise' = 0
    /\ Issue(commands[i])
    /\ pc' = "wait"
    /\ UNCHANGED <<arduino, white_captured_pieces, black_captured_pieces, args,
                   commands, i, result, calls, raised, inbuf>>
    /\ UNCHANGED <<position, testVars, pollVars>>

\* send_command: write raises, the except branch returns False
WriteRaises ==
    /\ pc = "send"
    /\ arduino = "open"
    /\ raised' = TRUE
    /\ Abort
    /\ UNCHANGED <<arduino, white_captured_pieces, black_captured_pieces, args,
                   commands, calls, written, nread, acked, response, issued,
                   inbuf, owed, noise, pos, gripper, pickup, crossed>>
    /\ UNCHANGED <<position, testVars, pollVars>>

\* mutant of HandleResponse: any line that is not an error acknowledges
HandleResponse_AnyLineAcks(line) ==
    IF line = "Error" THEN Abort ELSE Proceed

\* what send_command does with the line it read
HandleResponse(line) ==
    IF line = "Done" THEN Proceed
    ELSE IF line = "Error" THEN Abort
    ELSE UNCHANGED <<pc, i, result>>

\* send_command: in_waiting > 0, a line is read and inspected
ReadLine ==
    /\ pc = "wait"
    /\ inbuf # <<>>
    /\ inbuf' = Tail(inbuf)
    /\ nread' = nread + 1
    /\ response' = Head(inbuf)
    /\ acked' = (acked \/ Head(inbuf) = "Done")
    /\ HandleResponse(Head(inbuf))
    /\ UNCHANGED <<arduino, white_captured_pieces, black_captured_pieces, args,
                   commands, calls, written, raised, issued, owed, noise, pos,
                   gripper, pickup, crossed>>
    /\ UNCHANGED <<position, testVars, pollVars>>

\* send_command: in_waiting = 0, the loop goes round again
PollEmpty ==
    /\ pc = "wait"
    /\ inbuf = <<>>
    /\ UNCHANGED vars

\* send_command: in_waiting or readline raises, the except branch returns False
ReadRaises ==
    /\ pc = "wait"
    /\ raised' = TRUE
    /\ Abort
    /\ UNCHANGED <<arduino, white_captured_pieces, black_captured_pieces, args,
                   commands, calls, written, nread, acked, response, issued,
                   inbuf, owed, noise, pos, gripper, pickup, crossed>>
    /\ UNCHANGED <<position, testVars, pollVars>>

\* execute_chess_move has returned; call_robot.py reports the outcome and
\* goes on to the next record
Return ==
    /\ pc = "returned"
    /\ pc' = "idle"
    /\ UNCHANGED <<arduino, white_captured_pieces, black_captured_pieces, args,
                   commands, i, result, calls, written, nread, acked, response,
                   raised, issued, inbuf, owed, noise, pos, gripper, pickup,
                   crossed>>
    /\ UNCHANGED <<position, testVars, pollVars>>

-----------------------------------------------------------------------------
(* The controller, seen through its wire protocol *)

\* the controller sends one line
ControllerSends(line) ==
    /\ owed
    /\ inbuf' = Append(inbuf, line)
    /\ IF line = "Other"
       THEN /\ noise < MaxNoise
            /\ noise' = noise + 1
            /\ UNCHANGED owed
       ELSE /\ owed' = FALSE
            /\ UNCHANGED noise
    /\ UNCHANGED <<arduino, white_captured_pieces, black_captured_pieces, pc,
                   args, commands, i, result, calls, written, nread, acked,
                   response, raised, issued, pos, gripper, pickup, crossed>>
    /\ UNCHANGED <<position, testVars, pollVars>>

ControllerDone == ControllerSends("Done")

ControllerError == ControllerSends("Error")

ControllerOther == ControllerSends("Other")

-----------------------------------------------------------------------------
(* The converter's round-trip test: a square is converted to a grid point  *)
(* and back (coordinate_converter.py's self-test), or a grid point is       *)
(* converted to a square and back to the center point.                      *)

\* strings that are no square of the board
InvalidSquares ==
    { <<>>, <<"e">>, <<"e", "2", "x">>, <<"i", "1">>, <<"a", "9">>,
      <<"a", "0">>, <<"4", "e">> }

\* squares written with an upper-case file, which chess_to_grid lower-cases
UpperSquares == { <<"E", "4">>, <<"A", "1">>, <<"H", "8">> }

\* the grid and one line of points around it
GridPoints == { Point(x, y) : x \in -1..17, y \in -1..19 }

\* grid_coords = converter.chess_to_grid(square)
ConvertSquare ==
    /\ test_pc = "square"
    /\ IF chess_to_grid_raises(test_square)
       THEN /\ test_pc' = "error"
            /\ UNCHANGED grid_coords
       ELSE /\ grid_coords' = chess_to_grid(test_square, test_use_channel)
            /\ test_pc' = "converted"
    /\ UNCHANGED <<test_square, test_use_channel, back_to_chess, back_to_grid,
                   corners, edges>>
    /\ UNCHANGED <<robotVars, laneVars, position, pollVars>>

\* back_to_chess = converter.grid_to_chess(grid_coords["x"], grid_coords["y"])
ConvertBack ==
    /\ test_pc \in {"converted", "point"}
    /\ IF grid_to_chess_raises(grid_coords.x, grid_coords.y)
       THEN /\ test_pc' = IF test_pc = "converted" THEN "error" ELSE "rejected"
            /\ UNCHANGED back_to_chess
       ELSE /\ back_to_chess' = grid_to_chess(grid_coords.x, grid_coords.y)
            /\ test_pc' = IF test_pc = "converted" THEN "done" ELSE "decoded"
    /\ UNCHANGED <<test_square, test_use_channel, grid_coords, back_to_grid,
                   corners, edges>>
    /\ UNCHANGED <<robotVars, laneVars, position, pollVars>>

\* converter.chess_to_grid(back_to_chess, use_channel=False)
ConvertAgain ==
    /\ test_pc = "decoded"
    /\ IF chess_to_grid_raises(back_to_chess)
       THEN /\ test_pc' = "unrecoded"
            /\ UNCHANGED back_to_grid
       ELSE /\ back_to_grid' = chess_to_grid(back_to_chess, FALSE)
            /\ test_pc' = "recoded"
    /\ UNCHANGED <<test_square, test_use_channel, grid_coords, back_to_chess,
                   corners, edges>>
    /\ UNCHANGED <<robotVars, laneVars, position, pollVars>>

\* corners = converter.get_square_corners(square)
GetSquareCorners ==
    /\ test_pc = "square"
    /\ IF chess_to_grid_raises(test_square)
       THEN /\ test_pc' = "error"
            /\ UNCHANGED corners
       ELSE /\ corners' = get_square_corners(test_square)
            /\ test_pc' = "corners"
    /\ UNCHANGED <<test_square, test_use_channel, grid_coords, back_to_chess,
                   back_to_grid, edges>>
    /\ UNCHANGED <<robotVars, laneVars, position, pollVars>>

\* edges = converter.get_edge_points(square)
GetEdgePoints ==
    /\ test_pc = "square"
    /\ IF chess_to_grid_raises(test_square)
       THEN /\ test_pc' = "error"
            /\ UNCHANGED edges
       ELSE /\ edges' = get_edge_points(test_square)
            /\ test_pc' = "edges"
    /\ UNCHANGED <<test_square, test_use_channel, grid_coords, back_to_chess,
                   back_to_grid, corners>>
    /\ UNCHANGED <<robotVars, laneVars, position, pollVars>>

-----------------------------------------------------------------------------
(* The discard lanes, as a client of the converter drives them *)

\* converter.get_next_discard_position(is_white_capture)
GetNextDiscardPosition(is_white_capture) ==
    /\ Len(IF is_white_capture THEN black_captured_pieces
                               ELSE white_captured_pieces) < MaxLane
    /\ position' = get_next_discard_position(is_white_capture,
                        white_captured_pieces, black_captured_pieces)
    /\ IF is_white_capture
       THEN /\ black_captured_pieces' =
                   Append(black_captured_pieces,
                          next_discard_x(black_captured_pieces))
            /\ UNCHANGED white_captured_pieces
       ELSE /\ white_captured_pieces' =
                   Append(white_captured_pieces,
                          next_discard_x(white_captured_pieces))
            /\ UNCHANGED black_captured_pieces
    /\ UNCHANGED <<robotVars, testVars, pollVars>>

WhiteCaptures == GetNextDiscardPosition(TRUE)

BlackCaptures == GetNextDiscardPosition(FALSE)

\* converter.reset_discard_tracking()
ResetDiscardTracking ==
    /\ white_captured_pieces' = <<>>
    /\ black_captured_pieces' = <<>>
    /\ UNCHANGED <<robotVars, position, testVars, pollVars>>

-----------------------------------------------------------------------------
(* The game-state service (backend/main.py) *)

Sources == {"web", "coach"}

\* the record make_move appends.  The board alternates the turn from white
\* after each reset, so the side is given by the record's place in the list;
\* the first moves of a game neither capture, promote nor castle.  `serial`
\* numbers the records in the order of their arrival.
MoveRecord(is_white, source, serial) ==
    [from |-> IF is_white THEN Sq("a", "2") ELSE Sq("a", "7"),
     to |-> IF is_white THEN Sq("a", "3") ELSE Sq("a", "6"),
     is_white |-> is_white,
     is_capture |-> FALSE,
     is_promotion |-> FALSE,
     is_castle |-> FALSE,
     source |-> source,
     serial |-> serial]

\* POST /move: the move is legal and its record is appended
MakeMove(source) ==
    /\ Len(MOVE_DETAILS) < MaxRecords
    /\ MOVE_DETAILS' = Append(MOVE_DETAILS,
                              MoveRecord(Len(MOVE_DETAILS) % 2 = 0, source,
                                         committed + 1))
    /\ committed' = committed + 1
    /\ UNCHANGED <<robotVars, laneVars, position, testVars, moves,
                   processed_count, loop, resets, dispatched>>

\* POST /reset: MOVE_DETAILS.clear()
Reset ==
    /\ resets < MaxResets
    /\ MOVE_DETAILS' = <<>>
    /\ resets' = resets + 1
    /\ UNCHANGED <<robotVars, laneVars, position, testVars, moves,
                   processed_count, loop, committed, dispatched>>

-----------------------------------------------------------------------------
(* The polling loop of the robot process (call_robot.py) *)

\* move['is_white'] or move['source'] == 'coach'
ForRobot(move) == move.is_white \/ move.source = "coach"

\* the arguments the loop passes to execute_chess_move for a record
CallArgs(move) ==
    Move(move.from, move.to, move.is_capture,
         IF move.is_promotion THEN "Q" ELSE NoPiece, move.is_castle)

\* moves = requests.get(API_URL).json()['moves']
Poll ==
    /\ loop = "poll"
    /\ pc = "idle"
    /\ moves' = MOVE_DETAILS
    /\ loop' = "scan"
    /\ UNCHANGED <<robotVars, laneVars, position, testVars, MOVE_DETAILS,
                   processed_count, committed, resets, dispatched>>

\* the request raises: the error is printed and the loop polls again
PollFails ==
    /\ loop = "poll"
    /\ pc = "idle"
    /\ UNCHANGED vars

\* the inner loop takes moves[processed_count] and calls execute_chess_move
Dispatch ==
    /\ loop = "scan"
    /\ processed_count < Len(moves)
    /\ ForRobot(moves[processed_count + 1])
    /\ args' = CallArgs(moves[processed_count + 1])
    /\ dispatched' = Append(dispatched, moves[processed_count + 1])
    /\ calls' = calls + 1
    /\ commands' = <<>>
    /\ i' = 0
    /\ issued' = 0
    /\ written' = <<>>
    /\ nread' = 0
    /\ acked' = FALSE
    /\ response' = ""
    /\ raised' = FALSE
    /\ pc' = "called"
    /\ loop' = "executing"
    /\ UNCHANGED <<arduino, result, inbuf, owed, noise, pos, gripper, pickup,
                   crossed, laneVars, position, testVars, MOVE_DETAILS, moves,
                   processed_count, committed, resets>>

\* the inner loop passes over a record that is not for the robot
Skip ==
    /\ loop = "scan"
    /\ processed_count < Len(moves)
    /\ ~ForRobot(moves[processed_count + 1])
    /\ processed_count' = processed_count + 1
    /\ UNCHANGED <<robotVars, laneVars, position, testVars, MOVE_DETAILS,
                   moves, loop, committed, resets, dispatched>>

\* mutant of Advance: a failed record is left for the next round
Advance_RetriesFailure ==
    /\ loop = "executing"
    /\ pc = "idle"
    /\ processed_count' = IF result THEN processed_count + 1
                                     ELSE processed_count
    /\ loop' = "scan"
    /\ UNCHANGED <<robotVars, laneVars, position, testVars, MOVE_DETAILS,
                   moves, committed, resets, dispatched>>

\* processed_count += 1 after execute_chess_move has returned
Advance ==
    /\ loop = "executing"
    /\ pc = "idle"
    /\ processed_count' = processed_count + 1
    /\ loop' = "scan"
    /\ UNCHANGED <<robotVars, laneVars, position, testVars, MOVE_DETAILS,
                   moves, committed, resets, dispatched>>

\* processed_count < len(moves) is false: time.sleep(1) and the next round
EndScan ==
    /\ loop = "scan"
    /\ processed_count >= Len(moves)
    /\ loop' = "poll"
    /\ UNCHANGED <<robotVars, laneVars, position, testVars, MOVE_DETAILS,
                   moves, processed_count, committed, resets, dispatched>>

-----------------------------------------------------------------------------
(* Specifications *)

NoArgs == Move(<<>>, <<>>, FALSE, NoPiece, FALSE)

InitCommon ==
    /\ white_captured_pieces = <<>>
    /\ black_captured_pieces = <<>>
    /\ commands = <<>>
    /\ i = 0
    /\ result = FALSE
    /\ written = <<>>
    /\ nread = 0
    /\ acked = FALSE
    /\ response = ""
    /\ raised = FALSE
    /\ issued = 0
    /\ inbuf = <<>>
    /\ owed = FALSE
    /\ noise = 0
    /\ pos = get_home_position
    /\ gripper = "down"
    /\ pickup = get_home_position
    /\ crossed = {}
    /\ position = get_home_position

\* no converter test is running
InitNoTest ==
    /\ test_pc = "off"
    /\ test_square = <<>>
    /\ test_use_channel = TRUE
    /\ grid_coords = get_home_position
    /\ back_to_chess = <<>>
    /\ back_to_grid = get_home_position
    /\ corners = [bottom_left |-> get_home_position,
                  bottom_right |-> get_home_position,
                  top_left |-> get_home_position,
                  top_right |-> get_home_position]
    /\ edges = [left |-> get_home_position, right |-> get_home_position,
                bottom |-> get_home_position, top |-> get_home_position]

\* no game-state service is polled
InitNoPoll ==
    /\ MOVE_DETAILS = <<>>
    /\ moves = <<>>
    /\ processed_count = 0
    /\ loop = "off"
    /\ committed = 0
    /\ resets = 0
    /\ dispatched = <<>>

\* the robot process as it starts
Init ==
    /\ InitCommon
    /\ InitNoTest
    /\ InitNoPoll
    /\ arduino = "none"
    /\ pc = "start"
    /\ args = NoArgs
    /\ calls = 0

Next ==
    \/ ConnectArduino
    \/ \E m \in SampleMoves : Call(m)
    \/ ExecuteChessMove
    \/ SendSimulated
    \/ Write
    \/ WriteRaises
    \/ ReadLine
    \/ PollEmpty
    \/ ReadRaises
    \/ Return
    \/ ControllerDone
    \/ ControllerError
    \/ ControllerOther

Spec == Init /\ [][Next]_vars

\* the robot process without a controller, in its first call, on any move
InitPlan ==
    /\ InitCommon
    /\ InitNoTest
    /\ InitNoPoll
    /\ arduino = "none"
    /\ pc = "called"
    /\ args \in AllMoves
    /\ calls = 1

NextPlan ==
    \/ ExecuteChessMove
    \/ SendSimulated
    \/ Return

SpecPlan == InitPlan /\ [][NextPlan]_vars

\* the host process keeps running whenever it has a step to take; no
\* fairness is asked of the controller or of the serial port's failures
HostStep ==
    \/ ConnectArduino
    \/ \E m \in SampleMoves : Call(m)
    \/ ExecuteChessMove
    \/ SendSimulated
    \/ Write
    \/ ReadLine
    \/ Return

FairSpec == Init /\ [][Next]_vars /\ WF_vars(HostStep)

\* the host keeps running and the controller answers every action it was
\* sent with a Done or an Error line, sooner or later
ControllerAnswers == ControllerDone \/ ControllerError

\* one call of execute_chess_move over an open connection
AnsweringCalls ==
    SampleMoves \cup {Move(<<"i", "1">>, Sq("e", "4"), FALSE, NoPiece, FALSE)}

InitAnswering ==
    /\ InitCommon
    /\ InitNoTest
    /\ InitNoPoll
    /\ arduino = "open"
    /\ pc = "called"
    /\ args \in AnsweringCalls
    /\ calls = 1

NextAnswering ==
    \/ ExecuteChessMove
    \/ Write
    \/ WriteRaises
    \/ ReadLine
    \/ PollEmpty
    \/ ReadRaises
    \/ Return
    \/ ControllerDone
    \/ ControllerError
    \/ ControllerOther

\* the steps of the call that wait for nothing but the scheduler
AnsweringHostStep ==
    \/ ExecuteChessMove
    \/ Write
    \/ ReadLine
    \/ Return

AnsweringSpec ==
    /\ InitAnswering
    /\ [][NextAnswering]_vars
    /\ WF_vars(AnsweringHostStep)
    /\ WF_vars(ControllerAnswers)

\* the converter alone, under its round-trip test
InitGrid ==
    /\ InitCommon
    /\ InitNoPoll
    /\ arduino = "none"
    /\ pc = "start"
    /\ args = NoArgs
    /\ calls = 0
    /\ back_to_chess = <<>>
    /\ back_to_grid = get_home_position
    /\ corners = [bottom_left |-> get_home_position,
                  bottom_right |-> get_home_position,
                  top_left |-> get_home_position,
                  top_right |-> get_home_position]
    /\ edges = [left |-> get_home_position, right |-> get_home_position,
                bottom |-> get_home_position, top |-> get_home_position]
    /\ \/ /\ test_pc = "square"
          /\ test_square \in Squares \cup UpperSquares \cup InvalidSquares
          /\ test_use_channel \in BOOLEAN
          /\ grid_coords = get_home_position
       \/ /\ test_pc = "point"
          /\ test_square = <<>>
          /\ test_use_channel = FALSE
          /\ grid_coords \in GridPoints

NextGrid ==
    \/ ConvertSquare
    \/ ConvertBack
    \/ ConvertAgain
    \/ GetSquareCorners
    \/ GetEdgePoints

SpecGrid == InitGrid /\ [][NextGrid]_vars

\* the robot process called with endpoints of every kind
NextEndpoints ==
    \/ ConnectArduino
    \/ \E m \in EndpointMoves : Call(m)
    \/ ExecuteChessMove
    \/ SendSimulated
    \/ Write
    \/ ReadLine
    \/ ControllerDone
    \/ ControllerError
    \/ Return

SpecEndpoints == Init /\ [][NextEndpoints]_vars

\* the discard lanes of the robot process and the resets of the game
NextLifecycle ==
    \/ WhiteCaptures
    \/ BlackCaptures
    \/ ResetDiscardTracking
    \/ Reset

\* the converter's discard lanes alone
InitLanes ==
    /\ InitCommon
    /\ InitNoTest
    /\ InitNoPoll
    /\ arduino = "none"
    /\ pc = "start"
    /\ args = NoArgs
    /\ calls = 0

NextLanes ==
    \/ WhiteCaptures
    \/ BlackCaptures
    \/ ResetDiscardTracking

SpecLanes == InitLanes /\ [][NextLanes]_vars

SpecLifecycle == InitLanes /\ [][NextLifecycle]_vars

\* the robot process polling the game-state service
InitPoll ==
    /\ InitCommon
    /\ InitNoTest
    /\ arduino = "none"
    /\ pc = "start"
    /\ args = NoArgs
    /\ calls = 0
    /\ MOVE_DETAILS = <<>>
    /\ moves = <<>>
    /\ processed_count = 0
    /\ loop = "poll"
    /\ committed = 0
    /\ resets = 0
    /\ dispatched = <<>>

NextPoll ==
    \/ ConnectArduino
    \/ \E source \in Sources : MakeMove(source)
    \/ Reset
    \/ Poll
    \/ PollFails
    \/ Dispatch
    \/ Skip
    \/ ExecuteChessMove
    \/ SendSimulated
    \/ Write
    \/ ReadLine
    \/ ControllerDone
    \/ ControllerError
    \/ Return
    \/ Advance
    \/ EndScan

SpecPoll == InitPoll /\ [][NextPoll]_vars

-----------------------------------------------------------------------------
(* Claims *)

\* number of the first n actions of cmds whose word is op
CountOp(cmds, n, op) == Cardinality({k \in 1..n : cmds[k].op = op})

\* C1 (as claimed): while a piece is carried, between a raise and the
\* following lower, the actuator never passes over a square center other than
\* the one where the piece was picked up and the one where it is set down.
C1_NoCenterCrossed == crossed = {}

\* C2: once the controller has answered the k-th transmitted action with an
\* Error line, or the serial write or read has raised, execute_chess_move
\* returns failure and what was transmitted is exactly the first k actions of
\* the choreography: nothing, and no home in particular, is sent after it.
C2_AbortOnError ==
    (arduino = "open" /\ (response = "Error" \/ raised)) =>
        /\ pc \in {"returned", "idle"}
        /\ result = FALSE
        /\ Len(written) <= i
        /\ written = SubSeq(commands, 1, Len(written))
        /\ (response = "Error" => Len(written) = i)

\* the controller answered the very first action with Error
C2_Witness ==
    /\ response = "Error"
    /\ pc = "returned"
    /\ Len(written) = 1
    /\ Len(commands) > 1

\* C3: without a connection every action succeeds, the whole move returns
\* success, and nothing is written to or read from the serial port.
C3_SimulationMode ==
    arduino = "none" =>
        /\ written = <<>>
        /\ nread = 0
        /\ ~raised
        /\ (pc \in {"send", "returned", "idle"} /\ calls > 0 =>
                issued = (IF pc = "send" THEN i - 1 ELSE Len(commands)))
        /\ (pc \in {"returned", "idle"} /\ calls > 0 => result = TRUE)

\* a whole choreography went through in simulation mode
C3_Witness ==
    /\ arduino = "none"
    /\ pc = "returned"
    /\ result = TRUE
    /\ Len(commands) > 0
    /\ issued = Len(commands)

\* C4: the lines written are the actions of the choreography in order, each
\* once; the next action is written only after a Done line was read since the
\* previous write; a line that is neither Done nor Error leaves the dispatcher
\* waiting on the same action.
C4_OneInFlight ==
    arduino = "open" =>
        /\ Len(written) <= Len(commands)
        /\ written = SubSeq(commands, 1, Len(written))
        /\ (pc = "send" => Len(written) = i - 1 /\ (i > 1 => acked))
        /\ (pc = "wait" => Len(written) = i)
        /\ (response = "Other" => pc = "wait" \/ raised)

\* an unrelated line was read while the second action is in flight
C4_Witness ==
    /\ arduino = "open"
    /\ pc = "wait"
    /\ response = "Other"
    /\ Len(written) = 2

\* a Done or Error line is on its way to the host
AnswerInBuffer == \E k \in 1..Len(inbuf) : inbuf[k] \in {"Done", "Error"}

\* C5 (as claimed): if the controller never sends a Done or Error line for the
\* action in flight, the dispatch still ends, and reports failure.
C5_BoundedAckWait ==
    []((pc = "wait" /\ [](~AnswerInBuffer)) => <>(pc = "returned" /\ result = FALSE))

\* the action issued last, and how many raise / lower were issued up to it
LastIssued == commands[issued]

RaisesIssued == CountOp(commands, issued, "raise")

LowersIssued == CountOp(commands, issued, "lower")

CenterOf(square) == chess_to_grid(square, FALSE)

CastlingCall == _is_castling_move(args.from_square, args.to_square)

\* execute_chess_move has just built its list and sent nothing yet
JustPlanned == pc = "send" /\ i = 1 /\ issued = 0

\* a call that neither captures, castles nor promotes
PlainCall ==
    /\ ~args.is_capture
    /\ ~args.is_castling
    /\ ~CastlingCall
    /\ args.promotion_piece = NoPiece

NoPromoteMarker == \A k \in 1..Len(commands) : commands[k].op # "PROMOTE"

\* C6 (as claimed): the action list of a plain move begins with an uncarried
\* displacement to the source square's center, then raise, then at least one
\* carrying displacement, ends with lower and holds no PROMOTE marker.
C6_PlainMoveShape_AsClaimed ==
    (JustPlanned /\ PlainCall) =>
        /\ Len(commands) >= 4
        /\ commands[1] = Displacement(CenterOf(args.from_square).x,
                                      CenterOf(args.from_square).y)
        /\ commands[2].op = "raise"
        /\ commands[3].op = "X"
        /\ commands[Len(commands)].op = "lower"
        /\ NoPromoteMarker

\* C6 (amended): the action list of a plain move begins with lower and home,
\* then an uncarried displacement from home to the source square's center,
\* then raise, then one or more carrying displacements and nothing else up to
\* the final lower; it holds no PROMOTE marker.
C6_PlainMoveShape ==
    (JustPlanned /\ PlainCall) =>
        LET n == Len(commands)
        IN  /\ n >= 6
            /\ commands[1] = Word("lower")
            /\ commands[2] = Word("home")
            /\ commands[3] = Displacement(CenterOf(args.from_square).x,
                                          CenterOf(args.from_square).y)
            /\ commands[4] = Word("raise")
            /\ \A k \in 5..(n - 1) : commands[k].op = "X"
            /\ commands[n] = Word("lower")
            /\ NoPromoteMarker

\* the plan of e2 to e4 is ready
C6_Witness ==
    /\ JustPlanned
    /\ PlainCall
    /\ args.from_square = <<"e", "2">>
    /\ args.to_square = <<"e", "4">>
    /\ Len(commands) = 9

\* C7: for a pair of squares that is not a castling pair, the actuator is at
\* the center of `from` when the moving piece's raise is issued and at the
\* center of `to` when plan_path's final lower is issued.
C7_PickupAndSetDown ==
    (issued >= 1 /\ ~CastlingCall) =>
        LET cap == IF args.is_capture THEN 1 ELSE 0
        IN  /\ (LastIssued.op = "raise" /\ RaisesIssued = 1 + cap =>
                    pos = CenterOf(args.from_square))
            /\ (LastIssued.op = "lower" /\ LowersIssued = 2 + cap =>
                    pos = CenterOf(args.to_square))

\* the capturing piece of a capture was set down on its destination
C7_Witness ==
    /\ issued >= 1
    /\ ~CastlingCall
    /\ args.is_capture
    /\ LastIssued.op = "lower"
    /\ LowersIssued = 3
    /\ pos = CenterOf(args.to_square)
    /\ args.from_square # args.to_square

\* C8 (as claimed): planning a capture allocates a discard slot: the lane of
\* the captured side grows by one while the plan is built, that is before
\* anything of the capturing piece's cycle is issued.
C8_CaptureAllocates ==
    [][(/\ pc = "called"
        /\ pc' = "send"
        /\ args.is_capture
        /\ ~args.is_castling
        /\ ~CastlingCall
        /\ args.promotion_piece = NoPiece)
       => Len(black_captured_pieces') = Len(black_captured_pieces) + 1]_vars

\* C9 (as claimed): the captured piece is lowered at the slot freshly
\* allocated for it in the lane opposite to the capturer (plan_path is called
\* for a white mover, so the lane is y = 18).
C9_CapturedPieceSlot ==
    (/\ issued >= 1
     /\ args.is_capture
     /\ ~args.is_castling
     /\ ~CastlingCall
     /\ LastIssued.op = "lower"
     /\ LowersIssued = 2) =>
        /\ black_captured_pieces # <<>>
        /\ pos = Point(black_captured_pieces[Len(black_captured_pieces)],
                       black_discard_y)

\* the rook that castles with a king arriving on king_to, on the king's rank
KingsRookFrom(king_to) ==
    <<IF king_to[1] = "g" THEN "h" ELSE "a", king_to[2]>>

KingsRookTo(king_to) ==
    <<IF king_to[1] = "g" THEN "f" ELSE "d", king_to[2]>>

\* C10 (as claimed): a castling pair yields exactly two raise/lower cycles
\* with a home between them, the king's from its source to its target center,
\* then the rook's on the king's own rank, and the carried piece never enters
\* a discard lane, whatever is_capture says.
C10_CastlingChoreography ==
    (issued >= 1 /\ CastlingCall /\ args.promotion_piece = NoPiece) =>
        /\ CountOp(commands, Len(commands), "raise") = 2
        /\ CountOp(commands, Len(commands), "lower") = 3
        /\ (LastIssued.op = "raise" /\ RaisesIssued = 1 =>
                pos = CenterOf(args.from_square))
        /\ (LastIssued.op = "lower" /\ LowersIssued = 2 =>
                pos = CenterOf(args.to_square))
        /\ (LastIssued.op = "raise" /\ RaisesIssued = 2 =>
                /\ CountOp(commands, issued, "home") = 2
                /\ pos = CenterOf(KingsRookFrom(args.to_square)))
        /\ (LastIssued.op = "lower" /\ LowersIssued = 3 =>
                pos = CenterOf(KingsRookTo(args.to_square)))
        /\ (gripper = "up" => pos.y # white_discard_y /\ pos.y # black_discard_y)

-----------------------------------------------------------------------------
(* Claims on the coordinate conversions *)

\* the test started from a square and both conversions have been tried
SquareTestOver == test_pc \in {"done", "error"}

\* the test started from a grid point and has run to its end
PointTestOver == test_pc \in {"rejected", "recoded", "unrecoded"}

\* C11: for each of the 64 squares, converting it to its center point and
\* that point back with grid_to_chess gives the square again
C11_SquareRoundTrip ==
    (SquareTestOver /\ test_square \in Squares /\ ~test_use_channel)
        => (test_pc = "done" /\ back_to_chess = test_square)

C11_Witness ==
    /\ test_pc = "done"
    /\ ~test_use_channel
    /\ test_square = <<"h", "8">>
    /\ grid_coords = Point(15, 16)
    /\ back_to_chess = <<"h", "8">>

\* x odd and y even
CenterParity(p) == p.x % 2 = 1 /\ p.y % 2 = 0

\* C12 as claimed: every grid point in range with x odd and y even decodes
\* to a square whose center point is that grid point
C12_GridRoundTrip_AsClaimed ==
    (/\ PointTestOver
     /\ is_valid_grid_position(grid_coords.x, grid_coords.y)
     /\ CenterParity(grid_coords))
        => (test_pc = "recoded" /\ back_to_grid = grid_coords)

\* C12: every grid point with x odd in 1..15 and y even in 2..16 decodes to
\* a square whose center point is that grid point
C12_GridRoundTrip ==
    (/\ PointTestOver
     /\ is_valid_grid_position(grid_coords.x, grid_coords.y)
     /\ CenterParity(grid_coords)
     /\ 2 <= grid_coords.y /\ grid_coords.y <= 16)
        => (test_pc = "recoded" /\ back_to_grid = grid_coords)

C12_Witness ==
    /\ test_pc = "recoded"
    /\ grid_coords = Point(9, 8)
    /\ back_to_chess = <<"e", "4">>
    /\ back_to_grid = Point(9, 8)

\* C19: grid_to_chess returns a square only for the 64 center points; every
\* other grid point in range makes it fail
C19_RejectsNonCenters ==
    (test_pc \in {"decoded", "recoded", "unrecoded"}) => IsCenter(grid_coords)

\* C20: for each of the 64 squares, grid_to_chess gives the square back from
\* the center point and from the channel point chess_to_grid produces
C20_BothEncodingsInvert ==
    (SquareTestOver /\ test_square \in Squares)
        => (test_pc = "done" /\ back_to_chess = test_square)

-----------------------------------------------------------------------------
(* Claims on the discard lanes *)

\* the slots of a lane: x = 1, 3, ..., 15
LaneSlots == {1, 3, 5, 7, 9, 11, 13, 15}

\* the x claimed for the k-th allocation since the lane was empty
ClaimedSlot(k) == IF k <= Cardinality(LaneSlots) THEN (2 * k) - 1 ELSE 1

\* this step recorded an allocation in the lane
AllocatedIn(lane, lane_after) == Len(lane_after) = Len(lane) + 1

\* C13: counted from an empty lane, the allocations of one side return
\* x = 1, 3, ..., 15, each 2 more than the one before, and the first
\* allocation after x = 15 returns x = 1 again
C13_MonotonicAllocation ==
    [][ /\ (/\ AllocatedIn(black_captured_pieces, black_captured_pieces')
            /\ Len(black_captured_pieces') <= Cardinality(LaneSlots) + 1)
           => position' = Point(ClaimedSlot(Len(black_captured_pieces')),
                                black_discard_y)
        /\ (/\ AllocatedIn(white_captured_pieces, white_captured_pieces')
            /\ Len(white_captured_pieces') <= Cardinality(LaneSlots) + 1)
           => position' = Point(ClaimedSlot(Len(white_captured_pieces')),
                                white_discard_y) ]_vars

C13_Witness ==
    /\ black_captured_pieces = <<1, 3, 5, 7, 9, 11, 13, 15, 1>>
    /\ position = Point(1, black_discard_y)
    /\ Len(white_captured_pieces) = 2

\* the x slots recorded in a lane
Occupied(lane) == {lane[k] : k \in 1..Len(lane)}

\* C14: an allocation never returns a slot already recorded as occupied in
\* its lane; with x = 1, 3, ..., 15 all occupied the allocation fails instead
C14_ExhaustionSurfaced ==
    [][ /\ AllocatedIn(black_captured_pieces, black_captured_pieces')
           => position'.x \notin Occupied(black_captured_pieces)
        /\ AllocatedIn(white_captured_pieces, white_captured_pieces')
           => position'.x \notin Occupied(white_captured_pieces) ]_vars

-----------------------------------------------------------------------------
(* Claims on the polling loop *)

\* the records handed to execute_chess_move, in arrival order, none twice
InArrivalOrder(records) ==
    \A j, k \in 1..Len(records) :
        j < k => records[j].serial < records[k].serial

\* C15: records go to execute_chess_move in arrival order and at most once,
\* each the record at the cursor; a call starts only when no call is running;
\* the cursor moves on by one after a call whatever it returned; a record
\* that is neither white nor coach-issued is passed over with no call and
\* nothing issued
C15_SerializedConsumption ==
    [][ /\ InArrivalOrder(dispatched')
        /\ \A k \in 1..Len(dispatched') : ForRobot(dispatched'[k])
        /\ dispatched' # dispatched
              => /\ pc = "idle" /\ pc' = "called"
                 /\ processed_count < Len(moves)
                 /\ dispatched' = Append(dispatched, moves[processed_count + 1])
                 /\ args' = CallArgs(moves[processed_count + 1])
        /\ (loop = "executing" /\ loop' # "executing")
              => /\ pc = "idle"
                 /\ processed_count' = processed_count + 1
        /\ (loop = "scan" /\ processed_count' # processed_count)
              => /\ ~ForRobot(moves[processed_count + 1])
                 /\ processed_count' = processed_count + 1
                 /\ UNCHANGED <<pc, args, written, issued, dispatched>> ]_vars

\* the first record failed at the controller and the second is now called
C15_Witness ==
    /\ Len(dispatched) = 2
    /\ dispatched[2].source = "coach"
    /\ ~dispatched[2].is_white
    /\ pc = "called"
    /\ result = FALSE
    /\ processed_count = 1

\* C16: when the loop has gone through the list it polled, every record of
\* that list meant for the robot has been handed to execute_chess_move, also
\* when the service was reset after the loop had processed records
C16_CursorResetsWithGame ==
    (loop = "scan" /\ processed_count >= Len(moves))
        => \A k \in 1..Len(moves) :
               ForRobot(moves[k])
                   => \E j \in 1..Len(dispatched) : dispatched[j] = moves[k]

-----------------------------------------------------------------------------
(* Claims on invalid endpoints *)

\* a two-character square with file in a-h and rank in 1-8
IsSquare(s) ==
    /\ Len(s) = 2
    /\ s[1] \in {"a", "b", "c", "d", "e", "f", "g", "h"}
    /\ s[2] \in {"1", "2", "3", "4", "5", "6", "7", "8"}

\* the same, the file letter in either case
IsSquareAnyCase(s) ==
    /\ Len(s) = 2
    /\ s[1] \in {"a", "b", "c", "d", "e", "f", "g", "h",
                  "A", "B", "C", "D", "E", "F", "G", "H"}
    /\ s[2] \in {"1", "2", "3", "4", "5", "6", "7", "8"}

\* C17 as claimed: a call with an endpoint that is no two-character square
\* with file in a-h and rank in 1-8 returns False from its planning step,
\* nothing of it is written or issued, and the discard lists stay as they were
C17_InvalidEndpoints_AsClaimed ==
    [][ /\ (pc = "called"
             /\ (~IsSquare(args.from_square) \/ ~IsSquare(args.to_square)))
           => /\ pc' = "returned"
              /\ result' = FALSE
              /\ UNCHANGED <<white_captured_pieces, black_captured_pieces,
                             written, issued, inbuf, owed>>
        /\ (calls' > 0
             /\ (~IsSquare(args'.from_square) \/ ~IsSquare(args'.to_square)))
           => /\ written' = <<>>
              /\ issued' = 0
              /\ commands' = <<>> ]_vars

\* C17: a call with an endpoint that is no two-character square with file in
\* a-h or A-H and rank in 1-8 returns False from its planning step, nothing
\* of it is written or issued, and the discard lists stay as they were
C17_InvalidEndpoints ==
    [][ /\ (pc = "called"
             /\ (\/ ~IsSquareAnyCase(args.from_square)
                 \/ ~IsSquareAnyCase(args.to_square)))
           => /\ pc' = "returned"
              /\ result' = FALSE
              /\ UNCHANGED <<white_captured_pieces, black_captured_pieces,
                             written, issued, inbuf, owed>>
        /\ (calls' > 0
             /\ (\/ ~IsSquareAnyCase(args'.from_square)
                 \/ ~IsSquareAnyCase(args'.to_square)))
           => /\ written' = <<>>
              /\ issued' = 0
              /\ commands' = <<>> ]_vars

\* a promoting call onto no square has returned with the port open
C17_Witness ==
    /\ arduino = "open"
    /\ pc = "returned"
    /\ args.from_square = Sq("e", "7")
    /\ args.to_square = <<"a", "9">>
    /\ args.promotion_piece = "Q"
    /\ result = FALSE
    /\ written = <<>>
    /\ black_captured_pieces = <<>>

-----------------------------------------------------------------------------
(* Claims on the promotion sequence *)

\* the slot the promotion of this call was given
PromotionSlot ==
    Point(black_captured_pieces[Len(black_captured_pieces)], black_discard_y)

\* C18: in a promoting call, after the plain move, the pawn's raise is issued
\* with the actuator at the center of the promotion square, the lower that
\* follows at the discard slot allocated for it, then come home and the
\* PROMOTE marker, and the last lower is issued at the center of the
\* promotion square again
C18_PromotionChoreography ==
    (issued >= 1 /\ args.promotion_piece # NoPiece /\ ~CastlingCall) =>
        LET cap == IF args.is_capture THEN 1 ELSE 0
        IN  /\ (LastIssued.op = "raise" /\ RaisesIssued = 2 + cap =>
                    pos = CenterOf(args.to_square))
            /\ (LastIssued.op = "lower" /\ LowersIssued = 3 + cap =>
                    /\ pos = PromotionSlot
                    /\ commands[issued + 1] = Word("home")
                    /\ commands[issued + 2] =
                           PromoteMarker(args.promotion_piece))
            /\ (LastIssued.op = "lower" /\ LowersIssued = 4 + cap =>
                    /\ issued = Len(commands)
                    /\ pos = CenterOf(args.to_square))

-----------------------------------------------------------------------------
(* Claims on corners and edges *)

\* the points of a record of named points
PointsOf(named) == {named[k] : k \in DOMAIN named}

\* C21: the corners and the edge points of a square are the four diagonal
\* and the four straight neighbours of its center point (x odd, y even), and
\* each of them is a valid grid point
C21_CornersAndEdges ==
    LET c == CenterOf(test_square)
    IN  /\ (test_pc = "corners" /\ test_square \in Squares)
              => /\ PointsOf(corners) =
                        {Point(c.x + a, c.y + b) : a \in {-1, 1}, b \in {-1, 1}}
                 /\ \A q \in PointsOf(corners) :
                        is_valid_grid_position(q.x, q.y)
        /\ (test_pc = "edges" /\ test_square \in Squares)
              => /\ PointsOf(edges) =
                        {Point(c.x + a, c.y) : a \in {-1, 1}}
                            \cup {Point(c.x, c.y + b) : b \in {-1, 1}}
                 /\ \A q \in PointsOf(edges) :
                        is_valid_grid_position(q.x, q.y)

-----------------------------------------------------------------------------
(* Claims on the carrying route *)

\* a displacement along one axis: exactly one of dx, dy is not zero
AxisAligned(cmd) == cmd.op = "X" /\ ((cmd.dx = 0) # (cmd.dy = 0))

\* the carrying route between the centers of the call's two squares
CarryingRoute ==
    _plan_edge_movement(CenterOf(args.from_square), CenterOf(args.to_square),
                        TRUE)

\* the first half of C22 alone: the route has at most three legs, each along
\* one axis
CarryingRouteAligned ==
    /\ Len(CarryingRoute) <= 3
    /\ \A k \in 1..Len(CarryingRoute) : AxisAligned(CarryingRoute[k])

\* C22: the carrying route between two centers is a list of at most three
\* displacements, each along one axis and none zero, and every displacement
\* issued while a piece is carried, between a raise and the next lower, is
\* along one axis
C22_CarryingLegs ==
    /\ CarryingRouteAligned
    /\ (issued >= 1 /\ LastIssued.op = "X" /\ gripper = "up")
          => AxisAligned(LastIssued)

\* where the first n legs of a route lead from p
RECURSIVE After(_, _, _)
After(p, route, n) ==
    IF n = 0 THEN p ELSE PosAfter(After(p, route, n - 1), route[n])

\* C23: between two centers the major axis is horizontal when |dx| >= |dy|
\* and vertical otherwise; the route has one leg along the major axis, with
\* at most one minor leg before and one after it; a horizontal major leg runs
\* on a row with odd y, a vertical major leg on a column with even x
C23_AxisSelection ==
    (pc # "called") =>
        LET a == CenterOf(args.from_square)
            b == CenterOf(args.to_square)
            horizontal == Abs(b.x - a.x) >= Abs(b.y - a.y)
            route == CarryingRoute
            Major(k) == IF horizontal THEN route[k].dy = 0 ELSE route[k].dx = 0
        IN  \E j \in 1..Len(route) :
                /\ Major(j)
                /\ \A k \in 1..Len(route) : k # j => ~Major(k)
                /\ j <= 2
                /\ Len(route) <= j + 1
                /\ IF horizontal
                   THEN After(a, route, j - 1).y % 2 = 1
                   ELSE After(a, route, j - 1).x % 2 = 0

\* e2 to e4 is planned: one step right, up the column x = 10, no step back;
\* that route stands in the list between raise and the final approach
C23_Witness ==
    /\ pc = "send"
    /\ args.from_square = <<"e", "2">>
    /\ args.to_square = <<"e", "4">>
    /\ ~args.is_capture
    /\ CarryingRoute = <<Displacement(1, 0), Displacement(0, 3),
                         Displacement(-2, 0)>>
    /\ SubSeq(commands, 5, 7) = CarryingRoute
    /\ issued = 6
    /\ pos = Point(10, 7)

-----------------------------------------------------------------------------
(* Claims on the discard piles *)

\* an odd x within 1..15
LaneX(x) == x \in 1..15 /\ x % 2 = 1

\* C24: an allocation for a white capture returns a point with y = 18 and
\* appends to the black list only; one for a black capture returns a point
\* with y = 0 and appends to the white list only; the x returned is odd,
\* within 1..15, and is the entry appended
C24_LaneSelection ==
    [][ /\ WhiteCaptures
           => /\ position'.y = 18
              /\ LaneX(position'.x)
              /\ black_captured_pieces' =
                     Append(black_captured_pieces, position'.x)
              /\ UNCHANGED white_captured_pieces
        /\ BlackCaptures
           => /\ position'.y = 0
              /\ LaneX(position'.x)
              /\ white_captured_pieces' =
                     Append(white_captured_pieces, position'.x)
              /\ UNCHANGED black_captured_pieces ]_vars

C24_Witness ==
    /\ position = Point(3, 18)
    /\ black_captured_pieces = <<1, 3>>
    /\ white_captured_pieces = <<1>>

\* a lane's list after a step: as it was, one entry longer, or empty
AppendedOrReset(lane, lane_after) ==
    \/ lane_after = lane
    \/ \E x \in 1..15 : lane_after = Append(lane, x)
    \/ lane_after = <<>>

\* the first parts of C25 alone: a lane's list changes only by an append of
\* one entry or by being emptied
LanesOnlyAppend ==
    [][ /\ AppendedOrReset(white_captured_pieces, white_captured_pieces')
        /\ AppendedOrReset(black_captured_pieces, black_captured_pieces') ]_vars

\* C25: a lane's list changes only by an append of one entry, one per
\* allocation, or by a reset, and a reset of the game leaves both lanes empty
C25_DiscardLifecycle ==
    [][ /\ AppendedOrReset(white_captured_pieces, white_captured_pieces')
        /\ AppendedOrReset(black_captured_pieces, black_captured_pieces')
        /\ (WhiteCaptures \/ BlackCaptures)
           => Len(white_captured_pieces') + Len(black_captured_pieces')
                  = Len(white_captured_pieces) + Len(black_captured_pieces) + 1
        /\ resets' # resets
           => /\ white_captured_pieces' = <<>>
              /\ black_captured_pieces' = <<>> ]_vars

-----------------------------------------------------------------------------
(* Claims on castling detection *)

\* the place in cmds of its n-th raise
NthRaise(cmds, n) ==
    CHOOSE k \in 1..Len(cmds) :
        cmds[k].op = "raise" /\ CountOp(cmds, k, "raise") = n

\* the squares the rooks start on
RookCorners == { Sq("a", "1"), Sq("h", "1"), Sq("a", "8"), Sq("h", "8") }

\* a castling choreography: the first raise takes the piece on `from`, then,
\* after a home, the second raise takes a rook from its corner
CastlingPlanned ==
    /\ CountOp(commands, Len(commands), "raise") >= 2
    /\ LET r1 == NthRaise(commands, 1)
           r2 == NthRaise(commands, 2)
       IN  /\ After(get_home_position, commands, r1)
                  = CenterOf(args.from_square)
           /\ \E k \in r1..r2 : commands[k].op = "home"
           /\ \E c \in RookCorners :
                  After(get_home_position, commands, r2) = CenterOf(c)

\* C26: the list execute_chess_move plans is a castling choreography exactly
\* when is_castling is set or (from, to) is one of e1g1, e1c1, e8g8, e8c8
C26_CastlingDetection ==
    (JustPlanned /\ args.from_square # args.to_square)
        => (CastlingPlanned <=>
                (\/ args.is_castling
                 \/ <<args.from_square, args.to_square>> \in
                        { <<Sq("e", "1"), Sq("g", "1")>>,
                          <<Sq("e", "1"), Sq("c", "1")>>,
                          <<Sq("e", "8"), Sq("g", "8")>>,
                          <<Sq("e", "8"), Sq("c", "8")>> }))

\* the detection by the squares alone, which is what the code does
CastlingBySquares ==
    (JustPlanned /\ args.from_square # args.to_square)
        => (CastlingPlanned <=> CastlingCall)

-----------------------------------------------------------------------------
(* Claims on the actuator's track *)

\* the displacement issued last was issued with the actuator at home: the
\* position it led to is its own offset
IssuedFromHome ==
    pos = Point(get_home_position.x + LastIssued.dx,
                get_home_position.y + LastIssued.dy)

\* C27: the displacements computed as offsets from home are the approach
\* legs, issued with nothing carried; each of them is issued with the
\* actuator at home
C27_DisplacementsFromHome ==
    (issued >= 1 /\ LastIssued.op = "X" /\ gripper = "down")
        => IssuedFromHome

\* the same for the calls that do not promote
FromHomeWithoutPromotion ==
    (/\ issued >= 1 /\ LastIssued.op = "X" /\ gripper = "down"
     /\ args.promotion_piece = NoPiece)
        => IssuedFromHome

\* C28: after every action issued the actuator is on the grid,
\* 0 <= x <= 16 and 0 <= y <= 18
C28_ActuatorOnGrid ==
    /\ 0 <= pos.x /\ pos.x <= 16
    /\ 0 <= pos.y /\ pos.y <= 18

\* the same for the calls that do not promote
OnGridWithoutPromotion ==
    (args.promotion_piece = NoPiece) => C28_ActuatorOnGrid

-----------------------------------------------------------------------------
(* Claims on the gripper *)

\* C29: among the actions issued so far lower and raise alternate, lower
\* first (never two raise without a lower between them, never two lower
\* without a raise); no home and no PROMOTE marker is issued while a piece is
\* carried; and the list ends with the gripper lowered.
C29_GripperDiscipline ==
    /\ LowersIssued - RaisesIssued \in {0, 1}
    /\ (issued >= 1 /\ LastIssued.op = "lower") => gripper = "down"
    /\ (issued >= 1 /\ LastIssued.op = "raise") => gripper = "up"
    /\ (issued >= 1 /\ LastIssued.op \in {"home", "PROMOTE"})
           => (gripper = "down" /\ LowersIssued = RaisesIssued + 1)
    /\ (pc \in {"returned", "idle"})
           => /\ issued = Len(commands)
              /\ LastIssued.op = "lower"
              /\ gripper = "down"

\* a capture that promotes has been issued to its end: four pickups
C29_Witness ==
    /\ pc = "returned"
    /\ args.is_capture
    /\ args.promotion_piece # NoPiece
    /\ RaisesIssued = 4
    /\ LowersIssued = 5

-----------------------------------------------------------------------------
(* Claims on the dispatch's end *)

\* every action of the list went to the port and the line read last, for the
\* last of them, began with Done; no earlier action is left unacknowledged,
\* the next one being written only after a Done
AllAcknowledged ==
    /\ commands # <<>>
    /\ written = commands
    /\ i = Len(commands)
    /\ acked
    /\ response = "Done"
    /\ ~raised

\* C30: with a controller that answers every transmitted action with a Done
\* or an Error line, execute_chess_move, once called, returns; on an open
\* connection it returns success exactly when every action of the list was
\* transmitted and acknowledged with Done, and failure otherwise.
C30_DispatchReturns ==
    /\ []((pc = "returned" /\ arduino = "open")
             => (result <=> AllAcknowledged))
    /\ ((pc = "called") ~> (pc = "returned"))

\* a promoting call has returned success over an open connection after a
\* line of noise before its last acknowledgement
C30_Witness ==
    /\ pc = "returned"
    /\ arduino = "open"
    /\ result
    /\ AllAcknowledged
    /\ args.promotion_piece # NoPiece
    /\ nread = 2

=============================================================================
